---- MODULE Spec2Model ----
(***************************************************************************)
(* Model of planetastic.py: the dump1090 stream reader                     *)
(* (connect_to_dump1090), the SBS-1 parser (parse_adsb_message), the       *)
(* aggregation / rate-limit / dispatch handler (process_adsb_message) and  *)
(* the formatter (format_meshtastic_message).                              *)
(*                                                                         *)
(* Text is a sequence of one-character strings.  A Python value is a       *)
(* record [t, s, n]: t is the Python type, s the text of a str, n the      *)
(* number of an int, the hundredths of a float, or 0/1 of a bool.  The     *)
(* model's alphabet has no "e", "_", "n", "i": every numeral of the model  *)
(* is [whitespace][sign]digits[.digits][whitespace] with at most two       *)
(* fractional digits, so hundredths are exact.                             *)
(***************************************************************************)
EXTENDS Integers, Sequences, FiniteSets, TLC

\* ------------------------------------------------------------------------
\* Bounds of the model
\* ------------------------------------------------------------------------
MaxTime == 3
MaxInterval == 1
MaxRecv == 3
MaxAttempts == 12

\* ------------------------------------------------------------------------
\* Program constants
\* ------------------------------------------------------------------------
CONNECT_ATTEMPT_LIMIT == 10

SBS1_FIELDS ==
    << "message_type", "transmission_type", "session_id", "aircraft_id",
       "hex_ident", "flight_id", "generated_date", "generated_time",
       "logged_date", "logged_time", "callsign", "altitude",
       "ground_speed", "track", "lat", "lon", "vertical_rate",
       "squawk", "alert", "emergency", "spi", "is_on_ground" >>

IntFields == << "transmission_type", "altitude", "ground_speed", "track",
                "vertical_rate", "squawk" >>
FloatFields == << "lat", "lon" >>
BoolFields == << "alert", "emergency", "spi", "is_on_ground" >>

\* ------------------------------------------------------------------------
\* Python values
\* ------------------------------------------------------------------------
None == [t |-> "none", s |-> <<>>, n |-> 0]
StrV(s) == [t |-> "str", s |-> s, n |-> 0]
IntV(n) == [t |-> "int", s |-> <<>>, n |-> n]
FloatV(n) == [t |-> "float", s |-> <<>>, n |-> n]
BoolV(b) == [t |-> "bool", s |-> <<>>, n |-> IF b THEN 1 ELSE 0]

\* bool(v): the truth value Python gives a value
Truthy(v) ==
    CASE v.t = "none" -> FALSE
      [] v.t = "str" -> v.s # <<>>
      [] OTHER -> v.n # 0

\* a dict is a function whose domain is its set of keys
EmptyDict == [k \in {} |-> None]
DictGet(d, k, default) == IF k \in DOMAIN d THEN d[k] ELSE default
DictSet(d, k, v) == [x \in DOMAIN d \cup {k} |-> IF x = k THEN v ELSE d[x]]

\* ------------------------------------------------------------------------
\* str methods
\* ------------------------------------------------------------------------
Whitespace == {" ", "\r", "\t"}
Digits == <<"0", "1", "2", "3", "4", "5", "6", "7", "8", "9">>
IsDigit(c) == \E i \in 1..10 : Digits[i] = c
DigitVal(c) == (CHOOSE i \in 1..10 : Digits[i] = c) - 1

RECURSIVE lstrip(_)
lstrip(s) == IF s # <<>> /\ Head(s) \in Whitespace THEN lstrip(Tail(s)) ELSE s

RECURSIVE rstrip(_)
rstrip(s) ==
    IF s # <<>> /\ s[Len(s)] \in Whitespace
    THEN rstrip(SubSeq(s, 1, Len(s) - 1))
    ELSE s

strip(s) == rstrip(lstrip(s))

HasSep(s, sep) == \E i \in 1..Len(s) : s[i] = sep
FirstSep(s, sep) == CHOOSE i \in 1..Len(s) :
                        s[i] = sep /\ \A j \in 1..(i - 1) : s[j] # sep

\* the text before and the text after position i
CutAt(s, i) == <<SubSeq(s, 1, i - 1), SubSeq(s, i + 1, Len(s))>>

\* s.split(sep, 1) of a text that holds sep: <<before, after>>
split1(s, sep) == CutAt(s, FirstSep(s, sep))

\* s.split(sep): always at least one part
RECURSIVE split(_, _)
SplitRest(cut, sep) == <<cut[1]>> \o split(cut[2], sep)
split(s, sep) == IF HasSep(s, sep) THEN SplitRest(split1(s, sep), sep) ELSE <<s>>

\* ------------------------------------------------------------------------
\* int(text), float(text)
\* ------------------------------------------------------------------------
Unsigned(s) == IF s # <<>> /\ Head(s) \in {"+", "-"} THEN Tail(s) ELSE s
IsNegative(s) == s # <<>> /\ Head(s) = "-"

RECURSIVE DigitsVal(_)
DigitsVal(s) ==
    IF s = <<>> THEN 0
    ELSE 10 * DigitsVal(SubSeq(s, 1, Len(s) - 1)) + DigitVal(s[Len(s)])

AllDigits(s) == \A i \in 1..Len(s) : IsDigit(s[i])

Signed(neg, m) == IF neg THEN 0 - m ELSE m

\* a non-empty run of digits
IsNumeral(u) == u # <<>> /\ AllDigits(u)

\* int(text) succeeds
IntOk(text) == IsNumeral(Unsigned(strip(text)))

IntVal(text) ==
    Signed(IsNegative(strip(text)), DigitsVal(Unsigned(strip(text))))

\* digits, or digits "." digits with a digit on one side at least
IsDecimal(p) ==
    /\ Len(p) \in {1, 2}
    /\ \A i \in 1..Len(p) : AllDigits(p[i])
    /\ \E i \in 1..Len(p) : p[i] # <<>>

\* float(text) succeeds
FloatOk(text) == IsDecimal(split(Unsigned(strip(text)), "."))

\* the hundredths of a fraction of at most two digits
Cents(frac) ==
    CASE Len(frac) = 0 -> 0
      [] Len(frac) = 1 -> 10 * DigitsVal(frac)
      [] OTHER -> DigitsVal(SubSeq(frac, 1, 2))

Hundredths(p) ==
    100 * DigitsVal(p[1]) + Cents(IF Len(p) = 1 THEN <<>> ELSE p[2])

\* float(text) in hundredths (at most two fractional digits in the model)
FloatVal(text) ==
    Signed(IsNegative(strip(text)),
           Hundredths(split(Unsigned(strip(text)), ".")))

\* ------------------------------------------------------------------------
\* parse_adsb_message
\* ------------------------------------------------------------------------
InSeq(x, q) == \E i \in 1..Len(q) : q[i] = x

\* the try/except of the integer loop
CastInt(v) == IF Truthy(v) /\ IntOk(v.s) THEN IntV(IntVal(v.s)) ELSE v

\* the try/except of the float loop
CastFloat(v) == IF Truthy(v) /\ FloatOk(v.s) THEN FloatV(FloatVal(v.s)) ELSE v

\* bool(int(text)) of the boolean loop raises ValueError: there is no try
BoolRaises(v) == Truthy(v) /\ ~IntOk(v.s)
CastBool(v) == IF Truthy(v) THEN BoolV(IntVal(v.s) # 0) ELSE v

\* the result of a call: kind is "record", "None" or the exception raised
ParseResult(kind, data) == [kind |-> kind, data |-> data]

FieldIndex(key) == CHOOSE i \in 1..22 : SBS1_FIELDS[i] = key
FieldNames == {SBS1_FIELDS[i] : i \in 1..22}

\* "{key: (val if val else None) for key, val in zip(SBS1_FIELDS, parts)}"
Nullable(val) == IF val # <<>> THEN StrV(val) ELSE None
ZipFields(parts) == [key \in FieldNames |-> Nullable(parts[FieldIndex(key)])]

\* the three loops on one field
CastField(key, v) ==
    CASE InSeq(key, IntFields) -> CastInt(v)
      [] InSeq(key, FloatFields) -> CastFloat(v)
      [] InSeq(key, BoolFields) -> CastBool(v)
      [] OTHER -> v

CastFields(msg_data) ==
    IF \E i \in 1..Len(BoolFields) : BoolRaises(msg_data[BoolFields[i]])
    THEN ParseResult("ValueError", EmptyDict)
    ELSE ParseResult("record",
                     [key \in DOMAIN msg_data |-> CastField(key, msg_data[key])])

ParseParts(parts) ==
    IF Len(parts) = 22 /\ parts[1] = <<"M", "S", "G">>
    THEN CastFields(ZipFields(parts))
    ELSE ParseResult("None", EmptyDict)

parse_adsb_message(message_str) == ParseParts(split(strip(message_str), ","))

\* ------------------------------------------------------------------------
\* format_meshtastic_message
\* ------------------------------------------------------------------------
RECURSIVE NatToStr(_)
NatToStr(n) ==
    IF n < 10 THEN <<Digits[n + 1]>>
    ELSE NatToStr(n \div 10) \o <<Digits[(n % 10) + 1]>>

\* str(n) of an int
IntToStr(n) == IF n < 0 THEN <<"-">> \o NatToStr(0 - n) ELSE NatToStr(n)

Abs(n) == IF n < 0 THEN 0 - n ELSE n

\* f"{x:.2f}" of a non-negative float of h hundredths
Fixed2(h) ==
    NatToStr(h \div 100) \o <<".">>
        \o <<Digits[((h % 100) \div 10) + 1], Digits[(h % 10) + 1]>>

\* f"{v}" of an int or a str
Render(v) == IF v.t = "str" THEN v.s ELSE IntToStr(v.n)

FormatResult(kind, text) == [kind |-> kind, text |-> text]

\* f"{abs(x):.2f}{'N' if x >= 0 else 'S'}" of a float of h hundredths
Hemisphere(h, pos, neg) == Fixed2(Abs(h)) \o (IF h >= 0 THEN <<pos>> ELSE <<neg>>)

\* abs() of a str raises TypeError
FormatFields(callsign, altitude, lat, lon) ==
    IF lat.t # "float" \/ lon.t # "float"
    THEN FormatResult("TypeError", <<>>)
    ELSE FormatResult("str",
             strip(callsign.s) \o <<" ">> \o Render(altitude) \o <<"f", "t", " ">>
                 \o Hemisphere(lat.n, "N", "S") \o <<"/">>
                 \o Hemisphere(lon.n, "E", "W"))

format_meshtastic_message(aircraft_data) ==
    FormatFields(DictGet(aircraft_data, "callsign", StrV(<<"N", "/", "A">>)),
                 DictGet(aircraft_data, "altitude", IntV(0)),
                 DictGet(aircraft_data, "lat", FloatV(0)),
                 DictGet(aircraft_data, "lon", FloatV(0)))

\* ------------------------------------------------------------------------
\* State
\* ------------------------------------------------------------------------
VARIABLES
    \* main / process_adsb_message
    args,               \* update_interval, meshtastic_interface, mudp
    send_text_message,  \* TRUE iff the mudp import succeeded
    aircraft_db,        \* hex_ident -> dict of the aircraft
    last_sent_time,     \* hex_ident -> time of the last dispatch
    now,                \* what time.time() returns
    ppc,                \* main's loop: "running" or "crashed" (exception left it)
    last,               \* what the last call of process_adsb_message did
    \* connect_to_dump1090
    rpc,                \* position of the generator
    conn_attempts,
    buffer,
    sock,               \* the socket s: "unbound", "open" or "closed"
    received,           \* text received in the current session
    yielded,            \* lines yielded in the current session
    attempts,           \* calls of s.connect so far (saturates at MaxAttempts)
    connected_once,     \* TRUE iff some s.connect succeeded
    ev,                 \* what the last socket call did
    faults,             \* TRUE iff some socket call raised socket.error
    errors,             \* socket.error exceptions raised so far
    open_socks,         \* sockets created and not closed yet
    discarded,          \* what "buffer = ''" last threw away
    \* parse_adsb_message on its own
    p_line,
    p_result

pipeVars == <<args, send_text_message, aircraft_db, last_sent_time, now, ppc, last>>
readerVars == <<rpc, conn_attempts, buffer, sock, received, yielded, attempts,
                connected_once, ev, faults, errors, open_socks, discarded>>
parseVars == <<p_line, p_result>>
vars == <<pipeVars, readerVars, parseVars>>

\* ------------------------------------------------------------------------
\* Input lines
\* ------------------------------------------------------------------------
T_MSG == <<"M", "S", "G">>
T_ID == <<"I", "D">>
T_A == <<"A">>
T_B == <<"B">>
T_BAW1 == <<"B", "A", "W", "1", " ">>
T_X2 == <<"X", "2">>
T_38000 == <<"3", "8", "0", "0", "0">>
T_51_5 == <<"5", "1", ".", "5">>
T_0_0 == <<"0", ".", "0">>
T_m0_1 == <<"-", "0", ".", "1">>
T_m33_9 == <<"-", "3", "3", ".", "9">>
T_bad == <<"x">>

RECURSIVE Join(_)
Join(fields) ==
    IF Len(fields) = 1 THEN fields[1]
    ELSE fields[1] \o <<",">> \o Join(Tail(fields))

\* a line of n fields: first field mt, the fields of dict set, the rest empty
MkLine(n, mt, set) ==
    Join([i \in 1..n |->
            IF i = 1 THEN mt
            ELSE IF i <= 22 /\ SBS1_FIELDS[i] \in DOMAIN set THEN set[SBS1_FIELDS[i]]
            ELSE <<>>])

PipelineLines ==
    { MkLine(22, T_MSG, [hex_ident |-> T_A, altitude |-> T_38000,
                         lat |-> T_51_5, lon |-> T_m0_1]),
      MkLine(22, T_MSG, [hex_ident |-> T_A, callsign |-> T_BAW1]),
      MkLine(22, T_MSG, [hex_ident |-> T_A, lat |-> T_0_0]),
      MkLine(22, T_MSG, [hex_ident |-> T_A, lat |-> T_bad]),
      MkLine(22, T_MSG, [hex_ident |-> T_A, alert |-> T_bad]),
      MkLine(22, T_MSG, [hex_ident |-> T_B, callsign |-> T_X2, altitude |-> T_bad,
                         lat |-> T_m33_9, alert |-> <<"0">>,
                         is_on_ground |-> <<"1", "\r">>]),
      MkLine(22, T_MSG, [callsign |-> T_X2, lat |-> T_51_5]),
      MkLine(22, T_MSG, [alert |-> T_bad]),
      MkLine(22, T_ID, [hex_ident |-> T_A, callsign |-> T_BAW1, lat |-> T_51_5]),
      MkLine(21, T_MSG, [hex_ident |-> T_A, callsign |-> T_BAW1, lat |-> T_51_5]) }

\* parse_adsb_message on the input lines, computed once
ParseTable == [m \in PipelineLines |-> parse_adsb_message(m)]
Parse(message) == ParseTable[message]

\* ------------------------------------------------------------------------
\* process_adsb_message
\* ------------------------------------------------------------------------
\* the test written as "if value:"
IsNonEmptyTruthy(value) == Truthy(value)

\* "value is not None and value != ''"
IsNonEmpty(value) == value # None /\ value # StrV(<<>>)

\* the merge written as "aircraft[key] += value" for a key already stored
MergeAppend(aircraft, parsed_data) ==
    [key \in DOMAIN aircraft \cup
               {k \in DOMAIN parsed_data : IsNonEmpty(parsed_data[k])} |->
        IF key \in DOMAIN parsed_data /\ IsNonEmpty(parsed_data[key])
        THEN IF key \in DOMAIN aircraft /\ aircraft[key].t = "str"
                  /\ parsed_data[key].t = "str"
             THEN StrV(aircraft[key].s \o parsed_data[key].s)
             ELSE parsed_data[key]
        ELSE aircraft[key]]

\* the merge loop: every non-empty value of parsed_data overwrites its key
Merge(aircraft, parsed_data) ==
    [key \in DOMAIN aircraft \cup
               {k \in DOMAIN parsed_data : IsNonEmpty(parsed_data[k])} |->
        IF key \in DOMAIN parsed_data /\ IsNonEmpty(parsed_data[key])
        THEN parsed_data[key]
        ELSE aircraft[key]]

\* "aircraft.get('lat') and aircraft.get('callsign')"
HasEnoughData(aircraft) ==
    /\ Truthy(DictGet(aircraft, "lat", None))
    /\ Truthy(DictGet(aircraft, "callsign", None))

\* one rate limiter for all aircraft
RateLimitOpenGlobal(hex_ident, lst, current_time, update_interval) ==
    \A h \in DOMAIN lst : (current_time - lst[h]) > update_interval

\* the rate limiter
RateLimitOpen(hex_ident, lst, current_time, update_interval) ==
    \/ hex_ident \notin DOMAIN lst
    \/ (current_time - lst[hex_ident]) > update_interval

Output(sink, text, ok) == [sink |-> sink, text |-> text, ok |-> ok]

UseMeshtastic(a) == a.meshtastic_interface
UseMudp(a, lib) == a.mudp /\ lib
UseConsole(a) == ~a.meshtastic_interface /\ ~a.mudp

\* The body of the rate limiter's branch up to the timer update, given the
\* result f of format_meshtastic_message: the outputs made, in order, and the
\* exception that ended it ("" when none did).  fail names the sink whose send
\* raises in this call.
ToMesh(f, a, fail) ==
    IF UseMeshtastic(a)
    THEN <<Output("meshtastic", f.text, fail # "meshtastic")>> ELSE <<>>
ToMudp(f, a, lib, fail) ==
    IF UseMudp(a, lib) THEN <<Output("mudp", f.text, fail # "mudp")>> ELSE <<>>
ToConsole(f, a) ==
    IF UseConsole(a) THEN <<Output("console", f.text, TRUE)>> ELSE <<>>

\* each send in a try block of its own
SendAllIsolated(f, a, lib, fail) ==
    IF (UseMeshtastic(a) \/ UseMudp(a, lib) \/ UseConsole(a))
        /\ f.kind = "TypeError"
    THEN [sent |-> <<>>, error |-> "TypeError"]
    ELSE [sent |-> ToMesh(f, a, fail) \o ToMudp(f, a, lib, fail) \o ToConsole(f, a),
          error |-> ""]

SendAll(f, a, lib, fail) ==
    IF (UseMeshtastic(a) \/ UseMudp(a, lib) \/ UseConsole(a))
        /\ f.kind = "TypeError"
    THEN [sent |-> <<>>, error |-> "TypeError"]
    ELSE IF UseMeshtastic(a) /\ fail = "meshtastic"
    THEN [sent |-> ToMesh(f, a, fail), error |-> "SinkError"]
    ELSE IF UseMudp(a, lib) /\ fail = "mudp"
    THEN [sent |-> ToMesh(f, a, fail) \o ToMudp(f, a, lib, fail),
          error |-> "SinkError"]
    ELSE [sent |-> ToMesh(f, a, fail) \o ToMudp(f, a, lib, fail) \o ToConsole(f, a),
          error |-> ""]

Dispatch(aggregated_data, a, lib, fail) ==
    SendAll(format_meshtastic_message(aggregated_data), a, lib, fail)

Effect(db, lst, outcome, error, sent, considered, gate) ==
    [db |-> db, lst |-> lst, outcome |-> outcome, error |-> error,
     sent |-> sent, considered |-> considered, gate |-> gate]

\* the timer updated before the sends
AfterDispatchTimerFirst(d, hex_ident, db, lst, current_time) ==
    IF d.error # ""
    THEN Effect(db, DictSet(lst, hex_ident, current_time),
                "raised", d.error, d.sent, TRUE, TRUE)
    ELSE Effect(db, DictSet(lst, hex_ident, current_time),
                "dispatched", "", d.sent, TRUE, TRUE)

\* the end of the rate limiter's branch: the timer update, unless d raised
AfterDispatch(d, hex_ident, db, lst, current_time) ==
    IF d.error # ""
    THEN Effect(db, lst, "raised", d.error, d.sent, TRUE, TRUE)
    ELSE Effect(db, DictSet(lst, hex_ident, current_time),
                "dispatched", "", d.sent, TRUE, TRUE)

\* lines 137 to 168, the merged aircraft being stored in db
Consider(hex_ident, a, lib, db, lst, current_time, fail) ==
    IF ~HasEnoughData(db[hex_ident])
    THEN Effect(db, lst, "merged", "", <<>>, FALSE, FALSE)
    ELSE IF ~RateLimitOpen(hex_ident, lst, current_time, a.update_interval)
    THEN Effect(db, lst, "merged", "", <<>>, TRUE, FALSE)
    ELSE AfterDispatch(Dispatch(db[hex_ident], a, lib, fail),
                       hex_ident, db, lst, current_time)

\* lines 125 to 135
Store(hex_ident, parsed_data, db) ==
    DictSet(db, hex_ident, Merge(DictGet(db, hex_ident, EmptyDict), parsed_data))

\* the handler from line 120 on, parsed being the parser's result
Handle(parsed, a, lib, db, lst, current_time, fail) ==
    IF parsed.kind = "ValueError"
    THEN Effect(db, lst, "raised", "ValueError", <<>>, FALSE, FALSE)
    ELSE IF parsed.kind = "None"
            \/ ~Truthy(DictGet(parsed.data, "hex_ident", None))
    THEN Effect(db, lst, "dropped", "", <<>>, FALSE, FALSE)
    ELSE Consider(parsed.data["hex_ident"].s, a, lib,
                  Store(parsed.data["hex_ident"].s, parsed.data, db),
                  lst, current_time, fail)

process_adsb_message(message, a, lib, db, lst, current_time, fail) ==
    Handle(Parse(message), a, lib, db, lst, current_time, fail)

SinkFailures == {"none", "meshtastic", "mudp"}

\* the effect r of a call on the state
Apply(message, r) ==
    /\ aircraft_db' = r.db
    /\ last_sent_time' = r.lst
    /\ ppc' = IF r.outcome = "raised" THEN "crashed" ELSE "running"
    /\ last' = [line |-> message, outcome |-> r.outcome, error |-> r.error,
                sent |-> r.sent, considered |-> r.considered, gate |-> r.gate]

\* one iteration of main's "for message in dump1090_stream"
Process(message, fail) ==
    /\ ppc = "running"
    /\ Apply(message, process_adsb_message(message, args, send_text_message,
                                           aircraft_db, last_sent_time, now, fail))
    /\ UNCHANGED <<args, send_text_message, now, readerVars, parseVars>>

\* the clock advances between two reads of time.time()
Tick ==
    /\ ppc = "running"
    /\ now < MaxTime
    /\ now' = now + 1
    /\ UNCHANGED <<args, send_text_message, aircraft_db, last_sent_time, ppc, last,
                   readerVars, parseVars>>

\* the reader and the stand-alone parser at rest
ReaderIdle ==
    /\ rpc = "start" /\ conn_attempts = 0 /\ buffer = <<>> /\ sock = "unbound"
    /\ received = <<>> /\ yielded = <<>> /\ attempts = 0
    /\ connected_once = FALSE /\ ev = "none" /\ faults = FALSE
    /\ errors = 0 /\ open_socks = 0 /\ discarded = <<>>
ParseIdle == p_line = <<>> /\ p_result = ParseResult("pending", EmptyDict)
PipeIdle ==
    /\ args = [update_interval |-> 1, meshtastic_interface |-> FALSE, mudp |-> FALSE]
    /\ send_text_message = FALSE
    /\ aircraft_db = EmptyDict /\ last_sent_time = EmptyDict /\ now = 0
    /\ ppc = "running"
    /\ last = [line |-> <<>>, outcome |-> "start", error |-> "", sent |-> <<>>,
               considered |-> FALSE, gate |-> FALSE]

\* main up to the loop: the sinks are set up, both tables are empty
InitPipe ==
    /\ args \in [update_interval : 1..MaxInterval,
                 meshtastic_interface : BOOLEAN, mudp : BOOLEAN]
    /\ send_text_message \in BOOLEAN
    /\ args.mudp => send_text_message
    /\ aircraft_db = EmptyDict
    /\ last_sent_time = EmptyDict
    /\ now = 0
    /\ ppc = "running"
    /\ last = [line |-> <<>>, outcome |-> "start", error |-> "", sent |-> <<>>,
               considered |-> FALSE, gate |-> FALSE]
    /\ ReaderIdle
    /\ ParseIdle

NextPipe ==
    \/ \E message \in PipelineLines, fail \in SinkFailures : Process(message, fail)
    \/ Tick

SpecPipe == InitPipe /\ [][NextPipe]_vars

\* ------------------------------------------------------------------------
\* connect_to_dump1090
\* ------------------------------------------------------------------------
\* rpc: "start"     before the first call of next()
\*      "loop"      at the test of "while conn_attempts < CONNECT_ATTEMPT_LIMIT"
\*      "recv"      blocked in s.recv
\*      "yield"     the buffer holds a newline: the inner while loop
\*      "sleep"     in time.sleep of the except block, the socket still open
\*      "exhausted" returned None
NL == "\n"
Alphabet == {"a", NL}
Chunks == {<<c>> : c \in Alphabet} \cup {<<c, d>> : c \in Alphabet, d \in Alphabet}

\* the loop test written with <=
MoreAttemptsInclusive(n) == n <= CONNECT_ATTEMPT_LIMIT

\* "while conn_attempts < CONNECT_ATTEMPT_LIMIT"
MoreAttempts(n) == n < CONNECT_ATTEMPT_LIMIT

Saturate(n) == IF n < MaxAttempts THEN n + 1 ELSE n

\* the except block followed by the finally block
\* created is the number of sockets the failed try block has created
OnSocketError(created) ==
    /\ conn_attempts' = conn_attempts + 1
    /\ faults' = TRUE
    /\ errors' = Saturate(errors)
    /\ IF MoreAttempts(conn_attempts + 1)
       THEN /\ rpc' = "sleep" /\ sock' = "open"
            /\ open_socks' = open_socks + created
       ELSE /\ rpc' = "loop" /\ sock' = "closed"
            /\ open_socks' = open_socks + created - 1

\* "conn_attempts = 0" and the entry of the loop
Start ==
    /\ rpc = "start"
    /\ rpc' = "loop"
    /\ conn_attempts' = 0
    /\ UNCHANGED <<buffer, sock, received, yielded, attempts, connected_once,
                   ev, faults, errors, open_socks, discarded, pipeVars, parseVars>>

\* a successful connect that starts the count of errors again
ConnectOkReset ==
    /\ rpc = "loop"
    /\ MoreAttempts(conn_attempts)
    /\ rpc' = "recv"
    /\ sock' = "open"
    /\ open_socks' = open_socks + 1
    /\ buffer' = <<>>
    /\ discarded' = buffer
    /\ received' = <<>>
    /\ yielded' = <<>>
    /\ attempts' = Saturate(attempts)
    /\ connected_once' = TRUE
    /\ ev' = "connected"
    /\ conn_attempts' = 0
    /\ UNCHANGED <<faults, errors, pipeVars, parseVars>>

\* the buffer created once, before the loop
ConnectOkKeepBuffer ==
    /\ rpc = "loop"
    /\ MoreAttempts(conn_attempts)
    /\ rpc' = "recv"
    /\ sock' = "open"
    /\ open_socks' = open_socks + 1
    /\ discarded' = <<>>
    /\ received' = <<>>
    /\ yielded' = <<>>
    /\ attempts' = Saturate(attempts)
    /\ connected_once' = TRUE
    /\ ev' = "connected"
    /\ UNCHANGED <<buffer, conn_attempts, faults, errors, pipeVars, parseVars>>

\* "s = socket.socket(...)", s.connect succeeds; "buffer = ''"
ConnectOk ==
    /\ rpc = "loop"
    /\ MoreAttempts(conn_attempts)
    /\ rpc' = "recv"
    /\ sock' = "open"
    /\ open_socks' = open_socks + 1
    /\ buffer' = <<>>
    /\ discarded' = buffer
    /\ received' = <<>>
    /\ yielded' = <<>>
    /\ attempts' = Saturate(attempts)
    /\ connected_once' = TRUE
    /\ ev' = "connected"
    /\ UNCHANGED <<conn_attempts, faults, errors, pipeVars, parseVars>>

\* "s = socket.socket(...)", s.connect raises socket.error
ConnectFail ==
    /\ rpc = "loop"
    /\ MoreAttempts(conn_attempts)
    /\ OnSocketError(1)
    /\ attempts' = Saturate(attempts)
    /\ ev' = "refused"
    /\ UNCHANGED <<buffer, received, yielded, connected_once, discarded,
                   pipeVars, parseVars>>

\* time.sleep returns and no finally block follows
WakeNoClose ==
    /\ rpc = "sleep"
    /\ rpc' = "loop"
    /\ UNCHANGED <<sock, open_socks, conn_attempts, buffer, received, yielded,
                   attempts, connected_once, ev, faults, errors, discarded,
                   pipeVars, parseVars>>

\* time.sleep returns; the finally block closes the socket
Wake ==
    /\ rpc = "sleep"
    /\ rpc' = "loop"
    /\ sock' = "closed"
    /\ open_socks' = open_socks - 1
    /\ UNCHANGED <<conn_attempts, buffer, received, yielded, attempts,
                   connected_once, ev, faults, errors, discarded,
                   pipeVars, parseVars>>

\* "buffer = data" in place of "buffer += data"
RecvOverwrite(data) ==
    /\ rpc = "recv"
    /\ Len(received) + Len(data) <= MaxRecv
    /\ buffer' = data
    /\ received' = received \o data
    /\ rpc' = IF HasSep(data, NL) THEN "yield" ELSE "recv"
    /\ ev' = "data"
    /\ UNCHANGED <<conn_attempts, sock, yielded, attempts, connected_once, faults,
                   errors, open_socks, discarded, pipeVars, parseVars>>

\* s.recv returns text; "buffer += data"
Recv(data) ==
    /\ rpc = "recv"
    /\ Len(received) + Len(data) <= MaxRecv
    /\ buffer' = buffer \o data
    /\ received' = received \o data
    /\ rpc' = IF HasSep(buffer \o data, NL) THEN "yield" ELSE "recv"
    /\ ev' = "data"
    /\ UNCHANGED <<conn_attempts, sock, yielded, attempts, connected_once, faults,
                   errors, open_socks, discarded, pipeVars, parseVars>>

\* lb is <<line, buffer>>
YieldLine(lb) ==
    /\ yielded' = Append(yielded, lb[1])
    /\ buffer' = lb[2]
    /\ rpc' = IF HasSep(lb[2], NL) THEN "yield" ELSE "recv"

\* "line, buffer = buffer.split('\n', 1); yield line"
Yield ==
    /\ rpc = "yield"
    /\ YieldLine(split1(buffer, NL))
    /\ UNCHANGED <<conn_attempts, sock, received, attempts, connected_once, ev,
                   faults, errors, open_socks, discarded, pipeVars, parseVars>>

\* the clean close handled like a socket error
RecvCloseCounted ==
    /\ rpc = "recv"
    /\ OnSocketError(0)
    /\ ev' = "eof"
    /\ UNCHANGED <<buffer, received, yielded, attempts, connected_once,
                   discarded, pipeVars, parseVars>>

\* s.recv returns nothing: break, then the finally block
RecvClose ==
    /\ rpc = "recv"
    /\ rpc' = "loop"
    /\ sock' = "closed"
    /\ open_socks' = open_socks - 1
    /\ ev' = "eof"
    /\ UNCHANGED <<conn_attempts, buffer, received, yielded, attempts,
                   connected_once, faults, errors, discarded, pipeVars, parseVars>>

\* s.recv raises socket.error
RecvError ==
    /\ rpc = "recv"
    /\ OnSocketError(0)
    /\ ev' = "error"
    /\ UNCHANGED <<buffer, received, yielded, attempts, connected_once,
                   discarded, pipeVars, parseVars>>

\* the loop test fails: the message is printed and None returned
Exhaust ==
    /\ rpc = "loop"
    /\ ~MoreAttempts(conn_attempts)
    /\ rpc' = "exhausted"
    /\ UNCHANGED <<conn_attempts, buffer, sock, received, yielded, attempts,
                   connected_once, ev, faults, errors, open_socks, discarded,
                   pipeVars, parseVars>>

InitReader == ReaderIdle /\ PipeIdle /\ ParseIdle

NextReader ==
    \/ Start
    \/ ConnectOk
    \/ ConnectFail
    \/ Wake
    \/ \E data \in Chunks : Recv(data)
    \/ Yield
    \/ RecvClose
    \/ RecvError
    \/ Exhaust

SpecReader == InitReader /\ [][NextReader]_vars

\* ------------------------------------------------------------------------
\* parse_adsb_message applied to one line
\* ------------------------------------------------------------------------
TypedFields == {IntFields[i] : i \in 1..Len(IntFields)}
                   \cup {FloatFields[i] : i \in 1..Len(FloatFields)}
                   \cup {BoolFields[i] : i \in 1..Len(BoolFields)}

FieldTexts == { <<>>, T_bad, <<"1">>, <<"-", "5">>, <<"1", ".", "5">> }
FirstFields == { T_MSG, T_ID, <<" ">> \o T_MSG }
FieldCounts == {21, 22, 23}

ParseLines ==
    { MkLine(n, mt, [k \in {key, "hex_ident"} |-> IF k = key THEN txt ELSE T_A]) :
        n \in FieldCounts, mt \in FirstFields,
        key \in TypedFields \cup {"callsign"}, txt \in FieldTexts }
    \cup { MkLine(22, T_MSG, [hex_ident |-> T_A, is_on_ground |-> <<"0", "\r">>]) }

ParseStep ==
    /\ p_result.kind = "pending"
    /\ p_result' = parse_adsb_message(p_line)
    /\ UNCHANGED <<p_line, pipeVars, readerVars>>

InitParse ==
    /\ p_line \in ParseLines
    /\ p_result = ParseResult("pending", EmptyDict)
    /\ PipeIdle
    /\ ReaderIdle

NextParse == ParseStep

SpecParse == InitParse /\ [][NextParse]_vars

\* ------------------------------------------------------------------------
\* Properties
\* ------------------------------------------------------------------------
\* the last call of process_adsb_message reached the merge
LastMerged ==
    \/ last.outcome \in {"merged", "dispatched"}
    \/ last.outcome = "raised" /\ last.error # "ValueError"

\* the hex_ident of the last line (of a call that reached the merge)
LastHex == Parse(last.line).data["hex_ident"].s

\* field k of aircraft h holds a value
NonAbsent(db, h, k) == h \in DOMAIN db /\ k \in DOMAIN db[h] /\ db[h][k] # None

BothKnown(db, h) == NonAbsent(db, h, "lat") /\ NonAbsent(db, h, "callsign")

\* a step of Process (the clock stands still)
IsProcessStep == now' = now

\* C1: for a message that leaves the aircraft reportable (lat and callsign
\* known), a dispatch occurs iff the aircraft has no entry in last_sent_time or
\* now - last_sent_time[hex_ident] > update_interval.
C1_RateLimitGate ==
    [][ (IsProcessStep /\ LastMerged' /\ BothKnown(aircraft_db', LastHex'))
          => ( (last'.sent # <<>>)
                 <=> ( \/ LastHex' \notin DOMAIN last_sent_time
                       \/ now - last_sent_time[LastHex'] > args.update_interval ) )
      ]_vars

\* C2: after every merge the aircraft is considered for dispatch iff its stored
\* lat and its stored callsign are both non-absent.
C2_Reportability ==
    LastMerged => (last.considered <=> BothKnown(aircraft_db, LastHex))

\* new is old with the non-absent fields of rec written over it
MergedAs(rec, old, new) ==
    \A k \in DOMAIN rec :
        IF rec[k] = None
        THEN DictGet(new, k, None) = DictGet(old, k, None)
        ELSE DictGet(new, k, None) = rec[k]

\* C3: a stored field never becomes absent again; a merged record leaves a
\* stored field unchanged where its own value is absent and replaces it where
\* its own value is non-absent.
C3_MergeNeverErases ==
    [][ /\ \A h \in DOMAIN aircraft_db : \A k \in DOMAIN aircraft_db[h] :
              NonAbsent(aircraft_db, h, k) => NonAbsent(aircraft_db', h, k)
        /\ (IsProcessStep /\ LastMerged')
              => MergedAs(Parse(last'.line).data,
                          DictGet(aircraft_db, LastHex', EmptyDict),
                          aircraft_db'[LastHex'])
      ]_vars

\* C3 witness: the line that carries lat 0.0 and no callsign was merged into an
\* aircraft that had altitude, lat and callsign: lat is replaced, the others
\* are kept.
C3_Witness ==
    /\ LastMerged
    /\ last.line = MkLine(22, T_MSG, [hex_ident |-> T_A, lat |-> T_0_0])
    /\ aircraft_db[T_A]["lat"] = FloatV(0)
    /\ NonAbsent(aircraft_db, T_A, "callsign")
    /\ NonAbsent(aircraft_db, T_A, "altitude")

\* the fields of the line, its surrounding whitespace (the "\r" of a CRLF line
\* end) not counted
LineFields == split(strip(p_line), ",")
WellShaped == Len(LineFields) = 22 /\ LineFields[1] = T_MSG
Convertible(key, text) ==
    IF InSeq(key, FloatFields) THEN FloatOk(text) ELSE IntOk(text)

\* an unconvertible text stays in the record as it is
KeepsText(key, text) ==
    (text # <<>> /\ ~Convertible(key, text)) => p_result.data[key] = StrV(text)

\* C4: for every line of exactly 22 fields whose first field is MSG, parse
\* returns a record and never raises, and every non-absent typed field whose
\* text cannot be converted keeps its original text.
C4_LenientCasting ==
    (p_result.kind # "pending" /\ WellShaped)
        => /\ p_result.kind = "record"
           /\ \A key \in TypedFields :
                 KeepsText(key, LineFields[FieldIndex(key)])

\* C5: parse returns a record iff the line splits into exactly 22 fields and
\* the first is MSG; for every other line it returns None.
C5_ParseShape ==
    p_result.kind # "pending"
        => /\ (p_result.kind = "record") <=> WellShaped
           /\ ~WellShaped => p_result.kind = "None"

\* C6: while every connect attempt has failed, the reader makes no more than
\* CONNECT_ATTEMPT_LIMIT attempts, is exhausted after exactly that many, and
\* after the last of them can only end; once exhausted nothing happens any more.
C6_RetryExhaustion ==
    /\ [](~connected_once
            => /\ attempts <= CONNECT_ATTEMPT_LIMIT
               /\ rpc = "exhausted" => attempts = CONNECT_ATTEMPT_LIMIT
               /\ attempts = CONNECT_ATTEMPT_LIMIT => rpc \in {"loop", "exhausted"})
    /\ [][rpc = "exhausted" => (rpc' = "exhausted" /\ attempts' = attempts
                                 /\ yielded' = yielded)]_vars

\* C6 witness: ten failed connects in a row and the sequence has ended
C6_Witness ==
    rpc = "exhausted" /\ ~connected_once /\ attempts = CONNECT_ATTEMPT_LIMIT

\* C7: a zero-length read ends the session and leads to the loop test with the
\* attempt counter unchanged and below the limit, without the sleep; as long as
\* no socket call has raised, the counter is 0 and the reader is not exhausted.
C7_CleanCloseAsymmetry ==
    /\ [][ (rpc = "recv" /\ ev' = "eof")
             => /\ conn_attempts' = conn_attempts
                /\ conn_attempts' < CONNECT_ATTEMPT_LIMIT
                /\ rpc' = "loop" ]_vars
    /\ [](~faults => (conn_attempts = 0 /\ rpc # "exhausted"))

\* C7 witness: more sessions than the limit have ended by a clean close and the
\* reader is about to connect again
C7_Witness ==
    /\ ev = "eof" /\ rpc = "loop" /\ ~faults
    /\ attempts > CONNECT_ATTEMPT_LIMIT

\* C8: nothing is dispatched for an aircraft before both lat and callsign are
\* known, and the message that makes both known for an aircraft never
\* dispatched before causes one dispatch whose text is the stored record's.
C8_EndToEndAggregation ==
    /\ [](last.sent # <<>> => (LastMerged /\ BothKnown(aircraft_db, LastHex)))
    /\ [][ (/\ IsProcessStep /\ LastMerged'
            /\ LastHex' \notin DOMAIN last_sent_time
            /\ ~BothKnown(aircraft_db, LastHex')
            /\ BothKnown(aircraft_db', LastHex'))
             => /\ last'.sent # <<>>
                /\ \A i \in 1..Len(last'.sent) :
                      last'.sent[i].text
                          = format_meshtastic_message(aircraft_db'[LastHex']).text
         ]_vars

\* what the handler's test says of a stored aircraft
Reportable(db, h) == h \in DOMAIN db /\ HasEnoughData(db[h])

\* C9: an aircraft is not reportable before both lat and callsign have been
\* set, and once reportable it stays reportable after every later message.
C9_ReportabilityMonotone ==
    /\ [](\A h \in DOMAIN aircraft_db :
             Reportable(aircraft_db, h) => BothKnown(aircraft_db, h))
    /\ [][\A h \in DOMAIN aircraft_db :
             Reportable(aircraft_db, h) => Reportable(aircraft_db', h)]_vars

CountSink(sent, sink) == Cardinality({i \in 1..Len(sent) : sent[i].sink = sink})

\* C10: every call that passes the gate, no sink's send failing, sends once to
\* each enabled sink and, with no sink enabled, makes exactly one console
\* output; a call that updates last_sent_time has made at least one output.
C10_SinkFanOut ==
    /\ (last.gate /\ last.error # "SinkError")
         => /\ CountSink(last.sent, "meshtastic")
                 = (IF args.meshtastic_interface THEN 1 ELSE 0)
            /\ CountSink(last.sent, "mudp") = (IF args.mudp THEN 1 ELSE 0)
            /\ CountSink(last.sent, "console")
                 = (IF ~args.meshtastic_interface /\ ~args.mudp THEN 1 ELSE 0)
    /\ last.outcome = "dispatched" => last.sent # <<>>

\* the record of line m reaches the merge
Mergeable(m) ==
    Parse(m).kind = "record" /\ Truthy(DictGet(Parse(m).data, "hex_ident", None))

\* lines 125 to 135 run twice on db give what running them once gives
MergeTwiceIsOnce(hex_ident, parsed_data, db) ==
    Store(hex_ident, parsed_data, Store(hex_ident, parsed_data, db))
        = Store(hex_ident, parsed_data, db)

\* C11: merging is idempotent: for every stored state and every parsed record,
\* merging the record twice in a row leaves aircraft_db as merging it once
\* does; a line processed right after itself leaves aircraft_db unchanged.
C11_MergeIdempotent ==
    /\ [](\A m \in PipelineLines :
            Mergeable(m)
               => MergeTwiceIsOnce(Parse(m).data["hex_ident"].s, Parse(m).data,
                                   aircraft_db))
    /\ [][ (IsProcessStep /\ LastMerged /\ LastMerged' /\ last'.line = last.line)
             => aircraft_db' = aircraft_db ]_vars

\* C11 witness: the one line of aircraft B has been merged a second time (the
\* rate limiter was closed by its first dispatch) into a table that holds
\* nothing but its own record
C11_Witness ==
    /\ last.outcome = "merged" /\ last.considered /\ ~last.gate
    /\ Mergeable(last.line) /\ LastHex = T_B
    /\ DOMAIN aircraft_db = {T_B}
    /\ aircraft_db[T_B]["callsign"] = StrV(T_X2)

\* C12: whenever the connected phase has been left, by a clean close, a read
\* error or a failed connect, the socket is closed before the next connect
\* attempt starts or the sequence ends; at no time are two sockets open.
C12_SocketRelease ==
    /\ open_socks <= 1
    /\ (sock = "open") <=> (open_socks = 1)
    /\ rpc \in {"start", "loop", "exhausted"} => open_socks = 0

\* C12 witness: a session ended by a read error, the delay is over and the
\* reader stands before its next connect with the socket closed
C12_Witness ==
    /\ rpc = "loop" /\ ev = "error" /\ connected_once
    /\ sock = "closed" /\ MoreAttempts(conn_attempts)

\* the lines, each followed by its newline, one after the other
RECURSIVE Unlines(_)
Unlines(lines) ==
    IF lines = <<>> THEN <<>>
    ELSE lines[1] \o <<NL>> \o Unlines(Tail(lines))

\* C13: within one session, however the stream is cut into reads, the lines
\* emitted are exactly the newline-terminated segments of the text received,
\* in order and each once; what follows the last newline stays in the buffer
\* until its newline arrives; no emitted line contains a newline.
C13_LineFraming ==
    /\ Unlines(yielded) \o buffer = received
    /\ \A i \in 1..Len(yielded) : ~HasSep(yielded[i], NL)
    /\ rpc = "recv" => ~HasSep(buffer, NL)
    /\ rpc = "yield" => HasSep(buffer, NL)

\* C13 witness: three characters have been received, the line "a" has been
\* emitted and the "a" after the newline waits in the buffer
C13_Witness ==
    /\ rpc = "recv"
    /\ received = <<"a", NL, "a">>
    /\ yielded = << <<"a">> >>
    /\ buffer = <<"a">>

\* the fields of the input lines, computed once
FieldsTable == [m \in PipelineLines |-> split(strip(m), ",")]
FieldsOf(m) == FieldsTable[m]

\* the text of field key of line m is there and cannot be cast
Uncastable(m, key) ==
    /\ FieldsOf(m)[FieldIndex(key)] # <<>>
    /\ ~Convertible(key, FieldsOf(m)[FieldIndex(key)])

\* a 22-field MSG line with a hex_ident and a typed field that cannot be cast
HasCastFailure(m) ==
    /\ m \in PipelineLines
    /\ Len(FieldsOf(m)) = 22 /\ FieldsOf(m)[1] = T_MSG
    /\ FieldsOf(m)[FieldIndex("hex_ident")] # <<>>
    /\ \E key \in TypedFields : Uncastable(m, key)

\* C14: for a 22-field MSG line in which a typed field holds text that cannot
\* be cast, the call merges the record with the text as it is and returns
\* without a cast or formatting error, whether or not the aircraft is then
\* reportable, and the loop goes on.
C14_CastFailureTolerated ==
    HasCastFailure(last.line)
        => /\ last.error \notin {"ValueError", "TypeError"}
           /\ LastMerged
           /\ \A key \in TypedFields :
                 Uncastable(last.line, key)
                    => aircraft_db[LastHex][key]
                          = StrV(FieldsOf(last.line)[FieldIndex(key)])
           /\ last.error = "" => ppc = "running"

\* a line of the wrong field count or the wrong message type, or one whose
\* hex_ident is empty
Droppable(m) ==
    \/ Len(FieldsOf(m)) # 22
    \/ FieldsOf(m)[1] # T_MSG
    \/ FieldsOf(m)[FieldIndex("hex_ident")] = <<>>

\* C15: when a line is rejected by the parser (wrong field count or wrong
\* message type) or carries an empty hex_ident, aircraft_db and last_sent_time
\* are unchanged, nothing is sent, and the loop goes on to the next line.
C15_DroppedLinesChangeNothing ==
    [][ (IsProcessStep /\ last'.line \in PipelineLines /\ Droppable(last'.line))
          => /\ aircraft_db' = aircraft_db
             /\ last_sent_time' = last_sent_time
             /\ last'.sent = <<>>
             /\ ppc' = "running"
      ]_vars

\* last_sent_time of aircraft h has been set to time t
TimerSet(lst, h, t) == h \in DOMAIN lst /\ lst[h] = t

DeviceSendFailed(sent) ==
    \E i \in 1..Len(sent) : sent[i].sink = "meshtastic" /\ ~sent[i].ok

\* C17: when both sinks are enabled and the device sink's send raises, the
\* multicast sink does not receive that dispatch, the error leaves
\* process_adsb_message and ends main's loop, and no later line is processed.
C17_SinkFailureNotIsolated ==
    /\ []( (UseMeshtastic(args) /\ UseMudp(args, send_text_message)
              /\ DeviceSendFailed(last.sent))
             => /\ CountSink(last.sent, "mudp") = 0
                /\ last.outcome = "raised"
                /\ ppc = "crashed" )
    /\ [][ ppc = "crashed"
             => /\ ppc' = "crashed" /\ last' = last
                /\ aircraft_db' = aircraft_db
                /\ last_sent_time' = last_sent_time ]_vars

\* C17 witness: both sinks enabled, the device's send has raised and the
\* loop has ended with that one output attempted
C17_Witness ==
    /\ UseMeshtastic(args) /\ UseMudp(args, send_text_message)
    /\ DeviceSendFailed(last.sent) /\ Len(last.sent) = 1
    /\ ppc = "crashed"

\* a socket call raises socket.error in this step
IsErrorStep == errors' # errors

\* the counter is the number of errors so far, and the sequence has ended, or
\* is at the loop test that ends it, once that number is the limit
CountsEveryError ==
    /\ [](conn_attempts = errors)
    /\ [][conn_attempts' >= conn_attempts]_vars
    /\ [](rpc = "exhausted" => errors = CONNECT_ATTEMPT_LIMIT)
    /\ [](errors = CONNECT_ATTEMPT_LIMIT => rpc \in {"loop", "exhausted"})
    /\ [][ (rpc = "loop" /\ errors = CONNECT_ATTEMPT_LIMIT)
             => (rpc' = "exhausted" /\ yielded' = yielded) ]_vars

\* C18: the attempt counter is incremented and the retry delay applied on
\* every socket error, from connect or from a read; it is never reset or
\* decreased by a successful connection; the sequence ends as soon as the
\* total number of errors reaches CONNECT_ATTEMPT_LIMIT.
C18_CumulativeCounter ==
    /\ CountsEveryError
    /\ [][ IsErrorStep
             => (conn_attempts' = conn_attempts + 1 /\ rpc' = "sleep") ]_vars

\* C18 as amended: as C18, the retry delay being applied after every socket
\* error but the one that brings the counter to CONNECT_ATTEMPT_LIMIT, which
\* is followed by the loop test at once.
C18_CumulativeCounterDelay ==
    /\ CountsEveryError
    /\ [][ IsErrorStep
             => /\ conn_attempts' = conn_attempts + 1
                /\ conn_attempts' < CONNECT_ATTEMPT_LIMIT => rpc' = "sleep"
                /\ conn_attempts' = CONNECT_ATTEMPT_LIMIT => rpc' = "loop" ]_vars

\* C18 witness: the sequence has ended by the tenth error, a read error, with
\* more connects made than the limit: successful sessions lie between the errors
C18_Witness ==
    /\ rpc = "exhausted" /\ ev = "error" /\ connected_once
    /\ errors = CONNECT_ATTEMPT_LIMIT
    /\ attempts > CONNECT_ATTEMPT_LIMIT

\* text a is the beginning of text b
IsPrefix(a, b) == Len(a) <= Len(b) /\ SubSeq(b, 1, Len(a)) = a

\* C19: what was received after the last newline of a session is discarded
\* when the session ends: it is not emitted as a line and not put before the
\* data of the next session, so every emitted line consists of text of one
\* session.
C19_SessionLocalBuffer ==
    /\ [][ (rpc = "loop" /\ rpc' = "recv") => buffer' = <<>> ]_vars
    /\ [][ (rpc = "recv" /\ rpc' \in {"loop", "sleep"})
             => yielded' = yielded ]_vars
    /\ [][ yielded' # yielded
             => \/ rpc = "yield"
                \/ rpc = "loop" /\ yielded' = <<>> ]_vars
    /\ [](IsPrefix(Unlines(yielded), received))

\* C19 witness: the session before left "a" in its buffer; the present one
\* has received "a" and a newline and has emitted the line "a", not "aa"
C19_Witness ==
    /\ rpc = "recv"
    /\ discarded = <<"a">>
    /\ received = <<"a", NL>>
    /\ yielded = << <<"a">> >>

\* the hex_ident of line m, <<>> for a line that does not reach the merge
HexOf(m) == IF Mergeable(m) THEN Parse(m).data["hex_ident"].s ELSE <<>>

\* tables d and e agree on key h
SameEntry(d, e, h) ==
    /\ (h \in DOMAIN d) <=> (h \in DOMAIN e)
    /\ h \in DOMAIN d => d[h] = e[h]

\* table d without the entries of the other aircraft
OnlyEntry(d, h) == [k \in DOMAIN d \cap {h} |-> d[k]]

\* two calls decide alike
SameDecision(r, q) ==
    /\ r.outcome = q.outcome /\ r.error = q.error /\ r.sent = q.sent
    /\ r.considered = q.considered /\ r.gate = q.gate

\* the call on line m decides as it would with no other aircraft stored
OwnEntriesDecide(m, fail) ==
    SameDecision(
        process_adsb_message(m, args, send_text_message, aircraft_db,
                             last_sent_time, now, fail),
        process_adsb_message(m, args, send_text_message,
                             OnlyEntry(aircraft_db, HexOf(m)),
                             OnlyEntry(last_sent_time, HexOf(m)), now, fail))

\* C20: processing a message for hex_ident A changes at most aircraft_db[A]
\* and last_sent_time[A]; the record and the last-sent time of every other
\* aircraft are unchanged, and whether a message for an aircraft is
\* dispatched does not depend on the entries of the others.
C20_PerAircraftIndependence ==
    /\ [][ (IsProcessStep /\ last'.line \in PipelineLines)
             => \A h \in DOMAIN aircraft_db \cup DOMAIN aircraft_db'
                          \cup DOMAIN last_sent_time \cup DOMAIN last_sent_time' :
                   h # HexOf(last'.line)
                      => /\ SameEntry(aircraft_db, aircraft_db', h)
                         /\ SameEntry(last_sent_time, last_sent_time', h) ]_vars
    /\ [](\A m \in PipelineLines, fail \in SinkFailures : OwnEntriesDecide(m, fail))

\* C20 witness: a message for A has been dispatched while B, dispatched
\* earlier, keeps its record and its earlier last-sent time
C20_Witness ==
    /\ last.outcome = "dispatched" /\ LastHex = T_A
    /\ T_B \in DOMAIN aircraft_db
    /\ TimerSet(last_sent_time, T_B, 0)
    /\ TimerSet(last_sent_time, T_A, 1)

====
